---- MODULE Spec2Model ----
(***************************************************************************)
(* Model of the ResolveReferences generator of crossplane-tools:           *)
(*   - ReferenceProcessor.Process (reference extraction, one traversal     *)
(*     callback per field),                                                *)
(*   - NewResolveReferences / encapsulate / singleResolutionCall /         *)
(*     multiResolutionCall (synthesis of the procedure),                   *)
(*   - the control flow of the emitted ResolveReferences procedure.        *)
(*                                                                         *)
(* Go strings are sequences of one-character strings, so that the string   *)
(* operations of the source (HasPrefix, Replacer.Replace, Sprintf, Join,   *)
(* Split, TrimSuffix, +) are computed and not assumed.                     *)
(***************************************************************************)
EXTENDS Naturals, Sequences, FiniteSets, TLC

VARIABLES decl, pos, rp, phase, file, stack, err, ret, log

vars == <<decl, pos, rp, phase, file, stack, err, ret, log>>

-----------------------------------------------------------------------------
(* Bounds *)

\* Largest number of fields the traversal hands to Process for one object.
MaxFields == 2

\* Largest length of a repeated field when the emitted procedure runs.
MaxLen == 2

-----------------------------------------------------------------------------
(* Go strings *)

S_Ref == <<"R", "e", "f">>
S_Refs == <<"R", "e", "f", "s">>
S_Selector == <<"S", "e", "l", "e", "c", "t", "o", "r">>
S_List == <<"L", "i", "s", "t">>
S_string == <<"s", "t", "r", "i", "n", "g">>
S_mg == <<"m", "g">>
S_r == <<"r">>
S_rsp == <<"r", "s", "p">>
S_mrsp == <<"m", "r", "s", "p">>
S_err == <<"e", "r", "r">>
S_Bucket == <<"B", "u", "c", "k", "e", "t">>
S_v1Bucket == <<"v", "1", ".", "B", "u", "c", "k", "e", "t">>
S_FooRef == <<"F", "o", "o", "R", "e", "f">>
S_FooSel == <<"F", "o", "o", "S", "e", "l">>
S_Foo == <<"F", "o", "o">>
S_Bar == <<"B", "a", "r">>
S_Baz == <<"B", "a", "z">>
S_Spec == <<"S", "p", "e", "c">>
S_Status == <<"S", "t", "a", "t", "u", "s">>
S_ExternalName == <<"E", "x", "t", "e", "r", "n", "a", "l", "N", "a", "m", "e">>
S_pkgID == <<"p", "k", "g", ".", "I", "D">>

\* strings.HasPrefix(s, prefix)
HasPrefix(s, prefix) ==
    /\ Len(s) >= Len(prefix)
    /\ SubSeq(s, 1, Len(prefix)) = prefix

\* strings.HasSuffix(s, suffix)
HasSuffix(s, suffix) ==
    /\ Len(s) >= Len(suffix)
    /\ SubSeq(s, Len(s) - Len(suffix) + 1, Len(s)) = suffix

\* strings.TrimSuffix(s, suffix)
TrimSuffix(s, suffix) ==
    IF HasSuffix(s, suffix) THEN SubSeq(s, 1, Len(s) - Len(suffix)) ELSE s

\* cleaner = strings.NewReplacer("[]", "", "*", ""); cleaner.Replace(s)
RECURSIVE CleanerReplace(_)
CleanerReplace(s) ==
    IF s = <<>> THEN <<>>
    ELSE IF HasPrefix(s, <<"[", "]">>) THEN CleanerReplace(SubSeq(s, 3, Len(s)))
    ELSE IF Head(s) = "*" THEN CleanerReplace(Tail(s))
    ELSE <<Head(s)>> \o CleanerReplace(Tail(s))

Digit(d) == CASE d = 0 -> "0" [] d = 1 -> "1" [] d = 2 -> "2" [] d = 3 -> "3"
              [] d = 4 -> "4" [] d = 5 -> "5" [] d = 6 -> "6" [] d = 7 -> "7"
              [] d = 8 -> "8" [] d = 9 -> "9"

\* fmt.Sprintf("%d", n)
RECURSIVE SprintfD(_)
SprintfD(n) ==
    IF n < 10 THEN <<Digit(n)>> ELSE SprintfD(n \div 10) \o <<Digit(n % 10)>>

\* fmt.Sprintf("i%d", index)
SprintfI(index) == <<"i">> \o SprintfD(index)

\* fmt.Sprintf("[i%d]", index)
SprintfBracketI(index) == <<"[", "i">> \o SprintfD(index) \o <<"]">>

\* strings.Join(elems, ".")
RECURSIVE JoinDot(_)
JoinDot(elems) ==
    IF elems = <<>> THEN <<>>
    ELSE IF Len(elems) = 1 THEN elems[1]
    ELSE elems[1] \o <<".">> \o JoinDot(Tail(elems))

\* words := strings.Split(path, "."); words[len(words)-1]
RECURSIVE LastWord(_)
LastWord(path) ==
    IF path = <<>> THEN <<>>
    ELSE IF path[Len(path)] = "." THEN <<>>
    ELSE LastWord(SubSeq(path, 1, Len(path) - 1)) \o <<path[Len(path)]>>

\* len(strings.Split(path, ".")) == 1
OneWord(path) == \A i \in 1..Len(path) : path[i] # "."

-----------------------------------------------------------------------------
(* go/types: the declared types of the fields *)

Basic(name) == [kind |-> "Basic", name |-> name]
Pointer(t) == [kind |-> "Pointer", elem |-> t]
Slice(t) == [kind |-> "Slice", elem |-> t]

\* types.Type.String()
RECURSIVE TypeString(_)
TypeString(t) ==
    CASE t.kind = "Basic" -> t.name
      [] t.kind = "Pointer" -> <<"*">> \o TypeString(t.elem)
      [] t.kind = "Slice" -> <<"[", "]">> \o TypeString(t.elem)

-----------------------------------------------------------------------------
(* Comment markers used by ReferenceProcessor *)

ReferenceTypeMarker == "crossplane:generate:reference:type"
ReferenceExtractorMarker == "crossplane:generate:reference:extractor"
ReferenceReferenceFieldNameMarker == "crossplane:generate:reference:refFieldName"
ReferenceSelectorFieldNameMarker == "crossplane:generate:reference:selectorFieldName"

\* markers[key] of a Go map[string][]string: nil (length 0) when the key is absent
MarkerValues(markers, key) == IF key \in DOMAIN markers THEN markers[key] ELSE <<>>

\* jen.Op("&").Id(name).Values() / jen.Op("&").Qual(pkg, name).Values()
getTypeCodeFromPath(path, nameSuffix) ==
    IF OneWord(path)
    THEN [op |-> "&", pkg |-> <<>>, name |-> path \o nameSuffix]
    ELSE [op |-> "&", pkg |-> TrimSuffix(path, <<".">> \o LastWord(path)),
          name |-> LastWord(path) \o nameSuffix]

\* jen.Id(path) / jen.Qual(pkg, name)
getFuncCodeFromPath(path) ==
    IF OneWord(path)
    THEN [pkg |-> <<>>, name |-> path, call |-> FALSE]
    ELSE [pkg |-> TrimSuffix(path, <<".">> \o LastWord(path)),
          name |-> LastWord(path), call |-> FALSE]

\* WithDefaultExtractor(jen.Qual(referencePkgPath, "ExternalName").Call())
DefaultExtractor == [pkg |-> <<"r", "e", "f">>, name |-> S_ExternalName, call |-> TRUE]

-----------------------------------------------------------------------------
(* ReferenceProcessor.Process *)

\* case *types.Pointer: isPointer = true; case *types.Slice: if the element
\* is a pointer, isPointer = true
IsPointerOf(t) ==
    \/ t.kind = "Pointer"
    \/ t.kind = "Slice" /\ t.elem.kind = "Pointer"

\* A pointer to a list taken for a list as well.
IsListOfPtrToo(t) ==
    \/ t.kind = "Slice"
    \/ t.kind = "Pointer" /\ t.elem.kind = "Slice"

\* case *types.Slice: isList = true
IsListOf(t) == t.kind = "Slice"

\* sourceType: the element type's String() of a pointer or of the pointer
\* elements of a slice, "" otherwise
SourceTypeOf(t) ==
    CASE t.kind = "Pointer" -> TypeString(t.elem)
      [] t.kind = "Slice" /\ t.elem.kind = "Pointer" -> TypeString(t.elem.elem)
      [] OTHER -> <<>>

\* The extractor override, or the processor's default extractor.
ExtractorOf(defaultExtractor, markers) ==
    IF ReferenceExtractorMarker \in DOMAIN markers
    THEN getFuncCodeFromPath(markers[ReferenceExtractorMarker][1])
    ELSE defaultExtractor

\* The override marker left unread.
RefFieldNameNoOverride(name, isList, markers) ==
    IF isList THEN name \o S_Refs ELSE name \o S_Ref

\* refFieldName := f.Name() + "Ref"; "Refs" if isList; the marker's value if set
RefFieldNameOf(name, isList, markers) ==
    IF ReferenceReferenceFieldNameMarker \in DOMAIN markers
    THEN markers[ReferenceReferenceFieldNameMarker][1]
    ELSE IF isList THEN name \o S_Refs ELSE name \o S_Ref

\* selectorFieldName := f.Name() + "Selector"; the marker's value if set
SelectorFieldNameOf(name, markers) ==
    IF ReferenceSelectorFieldNameMarker \in DOMAIN markers
    THEN markers[ReferenceSelectorFieldNameMarker][1]
    ELSE name \o S_Selector

\* The Reference{...} literal that Process builds for a marked field f.
NewReference(receiver, defaultExtractor, f) ==
    LET refType == MarkerValues(f.markers, ReferenceTypeMarker)[1]
        isList == IsListOf(f.type)
        path == <<receiver>> \o f.parentFields
    IN [SourceType |-> SourceTypeOf(f.type),
        SourceName |-> f.name,
        RemoteType |-> getTypeCodeFromPath(refType, <<>>),
        RemoteListType |-> getTypeCodeFromPath(refType, S_List),
        Extractor |-> ExtractorOf(defaultExtractor, f.markers),
        GoValueFieldPath |-> Append(path, f.name),
        GoRefFieldName |-> RefFieldNameOf(f.name, isList, f.markers),
        GoSelectorFieldName |-> SelectorFieldNameOf(f.name, f.markers),
        IsPointer |-> IsPointerOf(f.type),
        IsSlice |-> isList]

\* The new Reference put in front of the accumulated ones.
AccumulateFront(refs, ref) == <<ref>> \o refs

\* rp.refs = append(rp.refs, Reference{...})
Accumulate(refs, ref) == Append(refs, ref)

\* One callback of the traversal: the next field of the declaration.
Process ==
    /\ phase = "traversing"
    /\ pos < Len(decl)
    /\ LET f == decl[pos + 1]
           refTypeValues == MarkerValues(f.markers, ReferenceTypeMarker)
       IN IF Len(refTypeValues) = 0
          THEN rp' = rp
          ELSE rp' = [rp EXCEPT !.refs =
                         Accumulate(@, NewReference(rp.Receiver, rp.DefaultExtractor, f))]
    /\ pos' = pos + 1
    /\ UNCHANGED <<decl, phase, file, stack, err, ret, log>>

\* GetReferences
GetReferences == rp.refs

-----------------------------------------------------------------------------
(* The emitted syntax (jen statements) *)

\* jen.If(cond != nil).Block(body...)
If(cond, body) == [kind |-> "if", cond |-> cond, body |-> body]

\* jen.For(id := 0, id < len(over), id++).Block(body...)
For(id, over, body) == [kind |-> "for", id |-> id, over |-> over, body |-> body]

\* A jen.Statement used as one item of a block: it opens no scope of its own.
Statement(items) == [kind |-> "stmts", body |-> items]

\* jen.Var().Id(id).<type>
Var(id, type) == [kind |-> "var", id |-> id, type |-> type]

\* jen.Id(id).Op(":=").<value>
Define(id, type) == [kind |-> "define", id |-> id, type |-> type]

\* jen.List(rsp, err).Op("=").Id("r").Dot(op).Call(ctx, request)
Call(rsp, op, request) == [kind |-> "call", rsp |-> rsp, op |-> op, request |-> request]

\* jen.If(err != nil).Block(jen.Return(errors.Wrap(err, ctx)))
IfErrReturn(ctx) == [kind |-> "iferr", ctx |-> ctx]

\* jen.If(err = fn(from, to), err != nil).Block(jen.Return(errors.Wrap(err, ctx)))
IfConvErrReturn(fn, from, to, ctx) ==
    [kind |-> "conv", fn |-> fn, from |-> from, to |-> to, ctx |-> ctx]

\* lhs.Op("=").<rhs>
Assign(lhs, rhs) == [kind |-> "assign", lhs |-> lhs, rhs |-> rhs]

\* jen.Return(jen.Nil())
ReturnNil == [kind |-> "return"]

\* An expression: a dotted path, possibly passed to a helper function.
Path(path) == [fn |-> "", path |-> path]
Qual(fn, path) == [fn |-> fn, path |-> path]

-----------------------------------------------------------------------------
(* singleResolutionCall, multiResolutionCall *)

\* The early return after a failed lookup left out.
singleResolutionCallNoReturn(ref, fields) ==
    LET n == Len(fields)
        prefixPath == SubSeq(fields, 1, IF n > 1 THEN n - 1 ELSE 1)
        currentValuePath == Append(prefixPath, fields[n])
        referenceFieldPath == Append(prefixPath, ref.GoRefFieldName)
        selectorFieldPath == Append(prefixPath, ref.GoSelectorFieldName)
        ctx == JoinDot(ref.GoValueFieldPath)
        id == <<"v">> \o ref.SourceName
        setResolvedValue ==
            IF ref.IsPointer
            THEN Statement(<< Var(id, ref.SourceType),
                              IfConvErrReturn("ToPtrValue",
                                              Path(<<S_rsp, "ResolvedValue">>), id, ctx),
                              Assign(currentValuePath, Path(<<id>>)) >>)
            ELSE Assign(currentValuePath, Path(<<S_rsp, "ResolvedValue">>))
    IN << Call(S_rsp, "Resolve",
               [CurrentValue |-> IF ref.IsPointer
                                 THEN Qual("FromPtrValue", currentValuePath)
                                 ELSE Path(currentValuePath),
                Reference |-> referenceFieldPath,
                Selector |-> selectorFieldPath,
                Managed |-> ref.RemoteType,
                List |-> ref.RemoteListType,
                Extract |-> ref.Extractor]),
          setResolvedValue,
          Assign(referenceFieldPath, Path(<<S_rsp, "ResolvedReference">>)) >>

\* The resolved value assigned to a pointer field as it comes.
singleResolutionCallRaw(ref, fields) ==
    LET n == Len(fields)
        prefixPath == SubSeq(fields, 1, IF n > 1 THEN n - 1 ELSE 1)
        currentValuePath == Append(prefixPath, fields[n])
        referenceFieldPath == Append(prefixPath, ref.GoRefFieldName)
        selectorFieldPath == Append(prefixPath, ref.GoSelectorFieldName)
        ctx == JoinDot(ref.GoValueFieldPath)
    IN << Call(S_rsp, "Resolve",
               [CurrentValue |-> IF ref.IsPointer
                                 THEN Qual("FromPtrValue", currentValuePath)
                                 ELSE Path(currentValuePath),
                Reference |-> referenceFieldPath,
                Selector |-> selectorFieldPath,
                Managed |-> ref.RemoteType,
                List |-> ref.RemoteListType,
                Extract |-> ref.Extractor]),
          IfErrReturn(ctx),
          Assign(currentValuePath, Path(<<S_rsp, "ResolvedValue">>)),
          Assign(referenceFieldPath, Path(<<S_rsp, "ResolvedReference">>)) >>

\* The statements of one single resolution, for the (narrowed) fields.
singleResolutionCall(ref, fields) ==
    LET n == Len(fields)
        prefixPath == SubSeq(fields, 1, IF n > 1 THEN n - 1 ELSE 1)
        currentValuePath == Append(prefixPath, fields[n])
        referenceFieldPath == Append(prefixPath, ref.GoRefFieldName)
        selectorFieldPath == Append(prefixPath, ref.GoSelectorFieldName)
        ctx == JoinDot(ref.GoValueFieldPath)
        id == <<"v">> \o ref.SourceName
        setResolvedValue ==
            IF ref.IsPointer
            THEN Statement(<< Var(id, ref.SourceType),
                              IfConvErrReturn("ToPtrValue",
                                              Path(<<S_rsp, "ResolvedValue">>), id, ctx),
                              Assign(currentValuePath, Path(<<id>>)) >>)
            ELSE Assign(currentValuePath, Path(<<S_rsp, "ResolvedValue">>))
    IN << Call(S_rsp, "Resolve",
               [CurrentValue |-> IF ref.IsPointer
                                 THEN Qual("FromPtrValue", currentValuePath)
                                 ELSE Path(currentValuePath),
                Reference |-> referenceFieldPath,
                Selector |-> selectorFieldPath,
                Managed |-> ref.RemoteType,
                List |-> ref.RemoteListType,
                Extract |-> ref.Extractor]),
          IfErrReturn(ctx),
          setResolvedValue,
          Assign(referenceFieldPath, Path(<<S_rsp, "ResolvedReference">>)) >>

\* The statements of one multi resolution, for the (narrowed) fields.
multiResolutionCall(ref, fields) ==
    LET n == Len(fields)
        prefixPath == SubSeq(fields, 1, IF n > 1 THEN n - 1 ELSE 1)
        currentValuePath == Append(prefixPath, fields[n])
        referenceFieldPath == Append(prefixPath, ref.GoRefFieldName)
        selectorFieldPath == Append(prefixPath, ref.GoSelectorFieldName)
        ctx == JoinDot(ref.GoValueFieldPath)
        id == <<"v">> \o ref.SourceName
        setResolvedValues ==
            IF ref.IsPointer
            THEN Statement(<< Define(id, ref.SourceType),
                              IfConvErrReturn("ToPtrValues",
                                              Path(<<S_mrsp, "ResolvedValues">>), id, ctx),
                              Assign(currentValuePath, Path(<<id>>)) >>)
            ELSE Assign(currentValuePath, Path(<<S_mrsp, "ResolvedValues">>))
    IN << Call(S_mrsp, "ResolveMultiple",
               [CurrentValue |-> IF ref.IsPointer
                                 THEN Qual("FromPtrValues", currentValuePath)
                                 ELSE Path(currentValuePath),
                Reference |-> referenceFieldPath,
                Selector |-> selectorFieldPath,
                Managed |-> ref.RemoteType,
                List |-> ref.RemoteListType,
                Extract |-> ref.Extractor]),
          IfErrReturn(ctx),
          setResolvedValues,
          Assign(referenceFieldPath, Path(<<S_mrsp, "ResolvedReferences">>)) >>

\* callFn(fields...): the closure holds a copy of the Reference whose
\* GoValueFieldPath shares its array with fields (the path is passed with
\* "..." all the way down, which passes the slice itself), so the closure
\* reads the elements of fields through ref.GoValueFieldPath.
ApplyCallFn(callFn, fields) ==
    LET ref == [callFn.ref EXCEPT !.GoValueFieldPath = fields]
    IN IF callFn.fn = "multi"
       THEN Statement(multiResolutionCall(ref, fields))
       ELSE Statement(singleResolutionCall(ref, fields))

-----------------------------------------------------------------------------
(* encapsulate *)

\* The guard of an optional segment forgotten: such a segment is passed over
\* like a plain one.
RECURSIVE encapsulateNoGuard(_, _, _)
encapsulateNoGuard(index, callFn, fields) ==
    IF Len(fields) <= index
    THEN [code |-> ApplyCallFn(callFn, fields), fields |-> fields]
    ELSE LET field == fields[index + 1]
             fieldPath == [i \in 1..(index + 1) |-> CleanerReplace(fields[i])]
         IN IF HasPrefix(field, <<"[", "]">>)
            THEN LET narrowed == [fields EXCEPT ![index + 1] =
                                     CleanerReplace(@) \o SprintfBracketI(index)]
                     inner == encapsulateNoGuard(index + 1, callFn, narrowed)
                 IN [code |-> For(SprintfI(index), fieldPath, <<inner.code>>),
                     fields |-> inner.fields]
            ELSE encapsulateNoGuard(index + 1, callFn,
                                    [fields EXCEPT ![index + 1] = CleanerReplace(@)])

\* encapsulate goes through the fields and encapsulates the final call with
\* nil guards and/or for loops.  index counts from 0 as in the source.  The
\* result holds the emitted statement and the elements of fields as the call
\* leaves them: fields[index] is overwritten in place.
RECURSIVE encapsulate(_, _, _)
encapsulate(index, callFn, fields) ==
    IF Len(fields) <= index
    THEN [code |-> ApplyCallFn(callFn, fields), fields |-> fields]
    ELSE LET field == fields[index + 1]
             fieldPath == [i \in 1..(index + 1) |-> CleanerReplace(fields[i])]
         IN CASE HasPrefix(field, <<"*">>) ->
                   LET narrowed == [fields EXCEPT ![index + 1] = CleanerReplace(@)]
                       inner == encapsulate(index + 1, callFn, narrowed)
                   IN [code |-> If(fieldPath, <<inner.code>>),
                       fields |-> inner.fields]
              [] HasPrefix(field, <<"[", "]">>) ->
                   LET narrowed == [fields EXCEPT ![index + 1] =
                                       CleanerReplace(@) \o SprintfBracketI(index)]
                       inner == encapsulate(index + 1, callFn, narrowed)
                   IN [code |-> For(SprintfI(index), fieldPath, <<inner.code>>),
                       fields |-> inner.fields]
              [] OTHER -> encapsulate(index + 1, callFn, fields)

-----------------------------------------------------------------------------
(* NewResolveReferences *)

\* The call function of a Reference: multiResolutionCall if ref.IsSlice,
\* singleResolutionCall otherwise.
CallFnOf(ref) == [fn |-> IF ref.IsSlice THEN "multi" ELSE "single", ref |-> ref]

\* resolverCalls[i] and what the loop body leaves in refs[i].GoValueFieldPath
Resolved(ref) == encapsulate(0, CallFnOf(ref), ref.GoValueFieldPath)

\* One declaration of the response variable for every Reference that uses it.
initStatementsPerRef(refs) ==
    [i \in 1..Len(refs) |->
        IF refs[i].IsSlice THEN Var(S_mrsp, "MultiResolutionResponse")
                           ELSE Var(S_rsp, "ResolutionResponse")]

\* var rsp if hasSingleResolution, var mrsp if hasMultiResolution
initStatements(refs) ==
    LET hasMultiResolution == \E i \in 1..Len(refs) : refs[i].IsSlice
        hasSingleResolution == \E i \in 1..Len(refs) : ~refs[i].IsSlice
    IN (IF hasSingleResolution THEN <<Var(S_rsp, "ResolutionResponse")>> ELSE <<>>)
       \o (IF hasMultiResolution THEN <<Var(S_mrsp, "MultiResolutionResponse")>> ELSE <<>>)

\* The block of the emitted func (receiver *T) ResolveReferences(ctx, c) error
Body(refs) ==
    << Define(S_r, "NewAPIResolver"),
       Statement(initStatements(refs)),
       Var(S_err, "error"),
       Statement([i \in 1..Len(refs) |-> Resolved(refs[i]).code]),
       ReturnNil >>

\* The position of &resolverCalls in the block.
ResolverCallsItem == 4

\* What follows the traversal in NewResolveReferences: nothing is written for
\* an object without References, else the method is written to the file.  The
\* References of rp share their path arrays with the ones encapsulate rewrote.
NewResolveReferences ==
    /\ phase = "traversing"
    /\ pos = Len(decl)
    /\ LET refs == GetReferences
       IN IF Len(refs) = 0
          THEN /\ file' = file
               /\ rp' = rp
          ELSE /\ file' = Append(file, [name |-> "ResolveReferences",
                                        receiver |-> rp.Receiver,
                                        body |-> Body(refs)])
               /\ rp' = [rp EXCEPT !.refs =
                            [i \in 1..Len(refs) |->
                                [refs[i] EXCEPT !.GoValueFieldPath =
                                    Resolved(refs[i]).fields]]]
    /\ phase' = "emitted"
    /\ UNCHANGED <<decl, pos, stack, err, ret, log>>

-----------------------------------------------------------------------------
(* The emitted ResolveReferences procedure, run statement by statement.    *)
(* What the object holds and what the resolver answers are not known to   *)
(* the generator: a nil check, the length of a list, the outcome of a     *)
(* lookup and of a pointer conversion are each any of their outcomes.     *)

Frame(code, kind, n) == [code |-> code, pc |-> 1, kind |-> kind, i |-> 0, n |-> n]

Top == stack[Len(stack)]

Cur == Top.code[Top.pc]

At(kind) ==
    /\ phase = "running"
    /\ Top.pc <= Len(Top.code)
    /\ Cur.kind = kind

Advance == [stack EXCEPT ![Len(stack)].pc = @ + 1]

\* The Reference whose block is running: the item of resolverCalls reached.
CurrentRef ==
    IF Len(stack) >= 2 /\ stack[1].pc = ResolverCallsItem THEN stack[2].pc ELSE 0

Logged(ok) == Append(log, [ref |-> CurrentRef, ok |-> ok, stmt |-> Cur])

Return(wrapped, msg) ==
    /\ ret' = [done |-> TRUE, wrapped |-> wrapped, msg |-> msg]
    /\ phase' = "returned"
    /\ stack' = <<>>

\* ResolveReferences(ctx, c) is called on an object.
Invoke ==
    /\ phase = "emitted"
    /\ file # <<>>
    /\ phase' = "running"
    /\ stack' = <<Frame(file[1].body, "block", 0)>>
    /\ UNCHANGED <<decl, pos, rp, file, err, ret, log>>

\* r := ..., var rsp ..., var err error, var v<Name> T, v<Name> := make(...)
ExecDecl ==
    /\ At("var") \/ At("define")
    /\ log' = Logged(TRUE)
    /\ stack' = Advance
    /\ UNCHANGED <<decl, pos, rp, phase, file, err, ret>>

\* A nested jen.Statement: its items run in place.
ExecStatement ==
    /\ At("stmts")
    /\ stack' = Append(stack, Frame(Cur.body, "block", 0))
    /\ UNCHANGED <<decl, pos, rp, phase, file, err, ret, log>>

\* if <path> != nil { ... }
ExecIf ==
    /\ At("if")
    /\ \E nonNil \in BOOLEAN :
          stack' = IF nonNil THEN Append(stack, Frame(Cur.body, "block", 0))
                             ELSE Advance
    /\ UNCHANGED <<decl, pos, rp, phase, file, err, ret, log>>

\* for i := 0; i < len(<path>); i++ { ... }
ExecFor ==
    /\ At("for")
    /\ \E length \in 0..MaxLen :
          stack' = IF 0 < length THEN Append(stack, Frame(Cur.body, "for", length))
                                 ELSE Advance
    /\ UNCHANGED <<decl, pos, rp, phase, file, err, ret, log>>

\* The end of a block: the next iteration of a loop, or the statement after.
ExecEnd ==
    /\ phase = "running"
    /\ Top.pc > Len(Top.code)
    /\ Len(stack) > 1
    /\ stack' = IF Top.kind = "for" /\ Top.i + 1 < Top.n
                THEN [stack EXCEPT ![Len(stack)].pc = 1, ![Len(stack)].i = @ + 1]
                ELSE LET rest == SubSeq(stack, 1, Len(stack) - 1)
                     IN [rest EXCEPT ![Len(rest)].pc = @ + 1]
    /\ UNCHANGED <<decl, pos, rp, phase, file, err, ret, log>>

\* rsp, err = r.Resolve(ctx, ...) / mrsp, err = r.ResolveMultiple(ctx, ...)
ExecCall ==
    /\ At("call")
    /\ \E ok \in BOOLEAN :
          /\ err' = ~ok
          /\ log' = Logged(ok)
    /\ stack' = Advance
    /\ UNCHANGED <<decl, pos, rp, phase, file, ret>>

\* if err != nil { return errors.Wrap(err, ctx) }
ExecIfErr ==
    /\ At("iferr")
    /\ IF err
       THEN Return(TRUE, Cur.ctx)
       ELSE /\ stack' = Advance
            /\ UNCHANGED <<phase, ret>>
    /\ UNCHANGED <<decl, pos, rp, file, err, log>>

\* if err = ToPtrValue(s)(from, to); err != nil { return errors.Wrap(err, ctx) }
ExecConv ==
    /\ At("conv")
    /\ \E ok \in BOOLEAN :
          /\ err' = ~ok
          /\ log' = Logged(ok)
          /\ IF ok
             THEN /\ stack' = Advance
                  /\ UNCHANGED <<phase, ret>>
             ELSE Return(TRUE, Cur.ctx)
    /\ UNCHANGED <<decl, pos, rp, file>>

\* <lhs> = <rhs>
ExecAssign ==
    /\ At("assign")
    /\ log' = Logged(TRUE)
    /\ stack' = Advance
    /\ UNCHANGED <<decl, pos, rp, phase, file, err, ret>>

\* return nil
ExecReturn ==
    /\ At("return")
    /\ Return(FALSE, <<>>)
    /\ UNCHANGED <<decl, pos, rp, file, err, log>>

-----------------------------------------------------------------------------
(* The objects handed to the generator *)

Field(name, type, markers, parentFields) ==
    [name |-> name, type |-> type, markers |-> markers, parentFields |-> parentFields]

NoMarkers == [k \in {} |-> <<>>]

T_string == Basic(S_string)

CoreFields ==
    { Field(S_Foo, T_string, ReferenceTypeMarker :> <<S_Bucket>>, <<S_Spec>>),
      Field(S_Foo, Pointer(T_string), ReferenceTypeMarker :> <<S_Bucket>>, <<S_Spec>>),
      Field(S_Foo, Pointer(T_string), ReferenceTypeMarker :> <<S_v1Bucket>>, <<S_Status>>),
      Field(S_Bar, Slice(T_string),
            ReferenceTypeMarker :> <<S_Bucket>>
              @@ ReferenceReferenceFieldNameMarker :> <<S_FooRef>>,
            <<<<"[", "]", "B">>>>),
      Field(<<"C">>, Pointer(T_string), ReferenceTypeMarker :> <<S_Bucket>>,
            <<<<"[", "]", "B">>>>),
      Field(<<"D">>, T_string,
            ReferenceTypeMarker :> <<S_Bucket>>
              @@ ReferenceSelectorFieldNameMarker :> <<S_FooSel>>,
            <<<<"[", "]", "B">>, <<"*", "C">>>>),
      Field(<<"D">>, T_string, ReferenceTypeMarker :> <<S_Bucket>>,
            <<<<"*", "C">>, <<"[", "]", "B">>>>),
      Field(S_Bar, Slice(Pointer(T_string)),
            ReferenceTypeMarker :> <<S_Bucket>>
              @@ ReferenceExtractorMarker :> <<S_pkgID>>,
            <<<<"*", "P">>, <<"[", "]", "Q">>, <<"*", "R">>>>),
      Field(S_Bar, Pointer(Slice(T_string)), ReferenceTypeMarker :> <<S_Bucket>>,
            <<<<"[", "]", "*", "E">>>>),
      Field(S_Baz, T_string, NoMarkers, <<S_Spec>>),
      Field(S_Baz, Slice(T_string),
            ReferenceReferenceFieldNameMarker :> <<S_FooRef>>, <<S_Status>>) }

WideNames == {S_Foo, S_Bar}

WideTypes == {T_string, Pointer(T_string), Slice(T_string),
              Slice(Pointer(T_string)), Pointer(Slice(T_string))}

MarkerValue(key) ==
    CASE key = ReferenceTypeMarker -> <<S_v1Bucket>>
      [] key = ReferenceExtractorMarker -> <<S_pkgID>>
      [] key = ReferenceReferenceFieldNameMarker -> <<S_FooRef>>
      [] key = ReferenceSelectorFieldNameMarker -> <<S_FooSel>>

WideMarkers ==
    { [k \in keys |-> MarkerValue(k)] :
        keys \in SUBSET {ReferenceTypeMarker, ReferenceExtractorMarker,
                         ReferenceReferenceFieldNameMarker,
                         ReferenceSelectorFieldNameMarker} }

WideParents ==
    { <<>>, <<S_Spec>>, <<<<"[", "]", "B">>>>, <<<<"*", "C">>>>,
      <<<<"[", "]", "B">>, <<"*", "C">>>>, <<<<"*", "C">>, <<"[", "]", "B">>>>,
      <<<<"[", "]", "*", "E">>>>,
      <<<<"*", "P">>, <<"[", "]", "Q">>, <<"*", "R">>>> }

WideFields ==
    { Field(n, t, m, p) : n \in WideNames, t \in WideTypes,
                          m \in WideMarkers, p \in WideParents }

\* A struct declares a field name once, and the traversal visits each field
\* once: no two fields of a declaration have the same parents and name.
DistinctFields(d) ==
    \A i, j \in 1..Len(d) :
        i # j => <<d[i].parentFields, d[i].name>> # <<d[j].parentFields, d[j].name>>

RECURSIVE SeqsUpTo(_, _)
SeqsUpTo(S, n) ==
    IF n = 0 THEN {<<>>}
    ELSE LET shorter == SeqsUpTo(S, n - 1)
         IN shorter \cup {Append(d, f) : d \in shorter, f \in S}

\* NewReferenceProcessor(receiver, WithDefaultExtractor(...)), nothing written
InitWith(declarations) ==
    /\ decl \in declarations
    /\ pos = 0
    /\ rp = [Receiver |-> S_mg, DefaultExtractor |-> DefaultExtractor, refs |-> <<>>]
    /\ phase = "traversing"
    /\ file = <<>>
    /\ stack = <<>>
    /\ err = FALSE
    /\ ret = [done |-> FALSE, wrapped |-> FALSE, msg |-> <<>>]
    /\ log = <<>>

Init == InitWith({d \in SeqsUpTo(CoreFields, MaxFields) : DistinctFields(d)})

InitWide == InitWith({<<f>> : f \in WideFields})

Next ==
    \/ Process
    \/ NewResolveReferences
    \/ Invoke
    \/ ExecDecl
    \/ ExecStatement
    \/ ExecIf
    \/ ExecFor
    \/ ExecEnd
    \/ ExecCall
    \/ ExecIfErr
    \/ ExecConv
    \/ ExecAssign
    \/ ExecReturn

Spec == Init /\ [][Next]_vars

SpecWide == InitWide /\ [][Next]_vars

-----------------------------------------------------------------------------
(* Reading the emitted procedure *)

\* The procedure has been written and not yet called.
Emitted == phase = "emitted" /\ file # <<>>

\* The resolution blocks, one item of resolverCalls each.
Blocks == file[1].body[ResolverCallsItem].body

\* The fields of a declaration whose comment carries the reference type marker.
IsMarked(f) == ReferenceTypeMarker \in DOMAIN f.markers
Marked(d) == SelectSeq(d, IsMarked)

\* The value path of a field as the traversal presents it: the root object,
\* the ancestors with their shape tags, the field.
ValuePathOf(f) == <<S_mg>> \o f.parentFields \o <<f.name>>

\* The shape a segment is tagged with.
ShapeOf(segment) ==
    IF HasPrefix(segment, <<"*">>) THEN "optional"
    ELSE IF HasPrefix(segment, <<"[", "]">>) THEN "repeated"
    ELSE "plain"

\* The positions of the shape-bearing segments of a path, in path order.
RECURSIVE ShapedFrom(_, _)
ShapedFrom(path, i) ==
    IF i > Len(path) THEN <<>>
    ELSE (IF ShapeOf(path[i]) # "plain" THEN <<i>> ELSE <<>>) \o ShapedFrom(path, i + 1)

\* The guards and loops around a block's terminal statements, outermost first.
RECURSIVE Wrappers(_)
Wrappers(stmt) ==
    IF stmt.kind \in {"if", "for"} /\ Len(stmt.body) = 1
    THEN <<stmt>> \o Wrappers(stmt.body[1])
    ELSE <<>>

\* What the innermost guard or loop of a block holds.
RECURSIVE Terminal(_)
Terminal(stmt) ==
    IF stmt.kind \in {"if", "for"} /\ Len(stmt.body) = 1
    THEN Terminal(stmt.body[1])
    ELSE stmt

Guarded(w) == IF w.kind = "if" THEN w.cond ELSE w.over

\* A terminal is the statement list of one lookup: the call comes first.
IsLookup(t) == t.kind = "stmts" /\ Len(t.body) > 0 /\ t.body[1].kind = "call"

\* The items of one block scope: nested statement lists open no scope.
RECURSIVE ScopeItems(_)
ScopeItems(stmts) ==
    IF stmts = <<>> THEN <<>>
    ELSE (IF Head(stmts).kind = "stmts" THEN ScopeItems(Head(stmts).body)
                                        ELSE <<Head(stmts)>>)
         \o ScopeItems(Tail(stmts))

IsDeclaration(stmt) == stmt.kind \in {"var", "define"}

\* Every simple statement of a block, at any depth.
RECURSIVE Leaves(_)
Leaves(stmts) ==
    IF stmts = <<>> THEN <<>>
    ELSE (IF Head(stmts).kind \in {"stmts", "if", "for"}
          THEN Leaves(Head(stmts).body) ELSE <<Head(stmts)>>)
         \o Leaves(Tail(stmts))

\* No identifier is declared twice in a block scope, nor in a nested one.
RECURSIVE ScopesOk(_)
ScopesOk(stmts) ==
    LET items == ScopeItems(stmts)
        declared == SelectSeq(items, IsDeclaration)
    IN /\ \A i, j \in 1..Len(declared) : i # j => declared[i].id # declared[j].id
       /\ \A i \in 1..Len(items) :
             items[i].kind \in {"if", "for"} => ScopesOk(items[i].body)

Count(seq, id) == Cardinality({i \in 1..Len(seq) : seq[i].id = id})

-----------------------------------------------------------------------------
(* The claims *)

\* C1: for every Reference, the emitted block has as many guards and loops as
\* its value path has shape-bearing segments, a null guard for an optional
\* segment and a bounded loop for a repeated one, nested in path order (each
\* guards the path up to its segment), with the lookup innermost; plain
\* segments add nothing.
C1_NestingFollowsPath ==
    Emitted =>
        /\ Len(Blocks) = Len(Marked(decl))
        /\ \A k \in 1..Len(Blocks) :
              LET path == ValuePathOf(Marked(decl)[k])
                  shaped == ShapedFrom(path, 1)
                  ws == Wrappers(Blocks[k])
              IN /\ Len(ws) = Len(shaped)
                 /\ IsLookup(Terminal(Blocks[k]))
                 /\ \A j \in 1..Len(ws) :
                       /\ ws[j].kind = (IF ShapeOf(path[shaped[j]]) = "optional"
                                        THEN "if" ELSE "for")
                       /\ Len(Guarded(ws[j])) = shaped[j]
                       /\ HasSuffix(path[shaped[j]], Guarded(ws[j])[shaped[j]])

\* A block with three nested guards and loops next to a flat one.
C1_Witness ==
    /\ Emitted
    /\ \E k \in 1..Len(Blocks) : Len(Wrappers(Blocks[k])) = 3
    /\ \E k \in 1..Len(Blocks) : Len(Wrappers(Blocks[k])) = 0

\* C2: once a lookup call has failed nothing more is run (no lookup of a later
\* Reference or of a later iteration, no conversion, no assignment): the next
\* statement returns the wrapped error; nil is returned only when no lookup
\* failed.
C2_FailFast ==
    /\ \A p \in 1..Len(log) :
          (log[p].stmt.kind = "call" /\ ~log[p].ok) => p = Len(log)
    /\ (phase = "running" /\ err) => At("iferr")
    /\ ret.done =>
          /\ (\E p \in 1..Len(log) : log[p].stmt.kind = "call" /\ ~log[p].ok)
                => (ret.wrapped /\ ret.msg # <<>>)
          /\ ~ret.wrapped =>
                (\A p \in 1..Len(log) : log[p].stmt.kind = "call" => log[p].ok)

\* The lookup of the first of two References failed and the procedure returned.
C2_Witness ==
    /\ ret.done
    /\ ret.wrapped
    /\ Len(rp.refs) = 2
    /\ Len(log) > 0
    /\ log[Len(log)].stmt.kind = "call"
    /\ ~log[Len(log)].ok
    /\ log[Len(log)].ref = 1

\* The fields of the scenario A.B[].C*: under the repeated ancestor B, the
\* pointer-typed reference field C itself, and a field below the optional
\* ancestor C.
UnderRepeatedB(f) == f.parentFields = << <<"[", "]", "B">> >>
UnderRepeatedBOptionalC(f) == f.parentFields = << <<"[", "]", "B">>, <<"*", "C">> >>
OptionalLast(f) == f.type.kind = "Pointer"

\* mg.B, and the narrowed mg.B[i1].C
P_B == <<S_mg, <<"B">>>>
P_BC == <<S_mg, <<"B", "[", "i", "1", "]">>, <<"C">>>>

\* C3 as stated: for the path A.B[].C* with the optional C as the last
\* segment, the block is a loop over B holding a null guard on C holding the
\* lookup.
C3_GuardOnLastSegment ==
    Emitted =>
        \A k \in 1..Len(Blocks) :
            LET f == Marked(decl)[k]
                ws == Wrappers(Blocks[k])
            IN (UnderRepeatedB(f) /\ OptionalLast(f)) =>
                  /\ Len(ws) = 2
                  /\ ws[1].kind = "for" /\ ws[1].over = P_B
                  /\ ws[2].kind = "if" /\ ws[2].cond = P_BC
                  /\ IsLookup(Terminal(Blocks[k]))

\* C3 amended: when the optional C is an ancestor segment, the block is a loop
\* over B holding a null guard on C holding the lookup, and not the reverse;
\* when the optional C is the last segment (the reference field itself), no
\* null guard is emitted for it: the loop over B holds the lookup directly,
\* whose current value is C passed through FromPtrValue.
C3_LoopThenGuard ==
    Emitted =>
        \A k \in 1..Len(Blocks) :
            LET f == Marked(decl)[k]
                ws == Wrappers(Blocks[k])
                t == Terminal(Blocks[k])
            IN /\ UnderRepeatedBOptionalC(f) =>
                     /\ Len(ws) = 2
                     /\ ws[1].kind = "for" /\ ws[1].over = P_B
                     /\ ws[2].kind = "if" /\ ws[2].cond = P_BC
                     /\ IsLookup(t)
               /\ (UnderRepeatedB(f) /\ OptionalLast(f)) =>
                     /\ Len(ws) = 1
                     /\ ws[1].kind = "for" /\ ws[1].over = P_B
                     /\ IsLookup(t)
                     /\ t.body[1].request.CurrentValue.fn = "FromPtrValue"
                     /\ t.body[1].request.CurrentValue.path =
                           <<S_mg, <<"B", "[", "i", "1", "]">>, f.name>>

\* A procedure with both blocks: the optional C as an ancestor and as the
\* reference field.
C3_Witness ==
    /\ Emitted
    /\ \E k \in 1..Len(Blocks) : UnderRepeatedBOptionalC(Marked(decl)[k])
    /\ \E k \in 1..Len(Blocks) :
          UnderRepeatedB(Marked(decl)[k]) /\ OptionalLast(Marked(decl)[k])

\* C4: the synthesizer leaves the accumulated References as the extractor
\* built them: emitting the procedure changes no value path.
C4_ReferencesReadOnly ==
    [][(phase = "traversing" /\ phase' = "emitted") => rp'.refs = rp.refs]_vars

\* C5: rsp and mrsp are each declared at most once; rsp is declared exactly
\* when some Reference is singular and mrsp exactly when some Reference is
\* plural; every lookup call assigns to a declared response variable.
C5_SharedResponseVariables ==
    Emitted =>
        LET declared == SelectSeq(ScopeItems(file[1].body), IsDeclaration)
            calls == Leaves(Blocks)
        IN /\ Count(declared, S_rsp) <= 1
           /\ Count(declared, S_mrsp) <= 1
           /\ Count(declared, S_rsp) = 1 <=>
                 \E k \in 1..Len(rp.refs) : ~rp.refs[k].IsSlice
           /\ Count(declared, S_mrsp) = 1 <=>
                 \E k \in 1..Len(rp.refs) : rp.refs[k].IsSlice
           /\ \A i \in 1..Len(calls) :
                 calls[i].kind = "call" => Count(declared, calls[i].rsp) = 1

\* Two singular References share rsp.
C5_Witness ==
    /\ Emitted
    /\ Len(rp.refs) = 2
    /\ \A k \in 1..2 : ~rp.refs[k].IsSlice
    /\ Count(SelectSeq(ScopeItems(file[1].body), IsDeclaration), S_rsp) = 1

\* C6: the shape flags follow the declared type alone, whatever the markers:
\* plain gives neither flag, a pointer gives isPointer only, a list gives
\* isSlice only, a list of pointers gives both, and a pointer to a list is not
\* plural; the multi resolution call is emitted exactly for isSlice.
C6_ShapeFromDeclaredType ==
    /\ Len(rp.refs) = Len(Marked(SubSeq(decl, 1, pos)))
    /\ \A k \in 1..Len(rp.refs) :
          LET t == Marked(decl)[k].type
              r == rp.refs[k]
          IN /\ t.kind = "Basic" => (~r.IsPointer /\ ~r.IsSlice)
             /\ (t.kind = "Pointer" /\ t.elem.kind = "Basic") =>
                   (r.IsPointer /\ ~r.IsSlice)
             /\ (t.kind = "Slice" /\ t.elem.kind = "Basic") =>
                   (~r.IsPointer /\ r.IsSlice)
             /\ (t.kind = "Slice" /\ t.elem.kind = "Pointer") =>
                   (r.IsPointer /\ r.IsSlice)
             /\ (t.kind = "Pointer" /\ t.elem.kind = "Slice") => ~r.IsSlice
    /\ Emitted =>
          \A k \in 1..Len(Blocks) :
              LET t == Terminal(Blocks[k])
              IN /\ IsLookup(t)
                 /\ t.body[1].op = (IF rp.refs[k].IsSlice THEN "ResolveMultiple"
                                                         ELSE "Resolve")

\* A pointer to a list, every marker set: a single resolution is emitted.
C6_Witness ==
    /\ Emitted
    /\ decl[1].type = Pointer(Slice(T_string))
    /\ DOMAIN decl[1].markers = {ReferenceTypeMarker, ReferenceExtractorMarker,
                                 ReferenceReferenceFieldNameMarker,
                                 ReferenceSelectorFieldNameMarker}
    /\ ~rp.refs[1].IsSlice
    /\ Terminal(Blocks[1]).body[1].op = "Resolve"

\* C7: the accumulated References are the marked fields among those processed
\* so far, one each and in call order (an unmarked field adds nothing), and
\* the k-th block of the emitted procedure resolves the k-th Reference.
C7_AccumulatedInCallOrder ==
    LET marked == Marked(SubSeq(decl, 1, pos))
    IN /\ Len(rp.refs) = Len(marked)
       /\ \A k \in 1..Len(rp.refs) :
             /\ rp.refs[k].SourceName = marked[k].name
             /\ Len(rp.refs[k].GoValueFieldPath) = Len(marked[k].parentFields) + 2
             /\ rp.refs[k].GoValueFieldPath[Len(marked[k].parentFields) + 2]
                   = marked[k].name
       /\ Emitted =>
             /\ Len(Blocks) = Len(rp.refs)
             /\ \A k \in 1..Len(Blocks) :
                   LET t == Terminal(Blocks[k])
                       n == Len(rp.refs[k].GoValueFieldPath)
                   IN /\ IsLookup(t)
                      /\ t.body[1].request.Reference[n] = rp.refs[k].GoRefFieldName
                      /\ t.body[1].request.Selector[n] = rp.refs[k].GoSelectorFieldName
                      /\ t.body[1].request.CurrentValue.path[n] = marked[k].name
                      /\ Len(Wrappers(Blocks[k]))
                            = Len(ShapedFrom(ValuePathOf(marked[k]), 1))

\* Two marked fields of different names and depths, processed and emitted.
C7_Witness ==
    /\ Emitted
    /\ Len(rp.refs) = 2
    /\ rp.refs[1].SourceName # rp.refs[2].SourceName
    /\ Len(Wrappers(Blocks[1])) # Len(Wrappers(Blocks[2]))

\* C8: refFieldName is the value of the refFieldName marker when present,
\* else the field name followed by "Refs" for a list-typed field and by "Ref"
\* for any other; selectorFieldName is the value of the selectorFieldName
\* marker when present, else the field name followed by "Selector".
C8_SiblingFieldNames ==
    /\ Len(rp.refs) = Len(Marked(SubSeq(decl, 1, pos)))
    /\ \A k \in 1..Len(rp.refs) :
          LET f == Marked(decl)[k]
              r == rp.refs[k]
          IN /\ r.GoRefFieldName =
                   (IF ReferenceReferenceFieldNameMarker \in DOMAIN f.markers
                    THEN <<"F", "o", "o", "R", "e", "f">>
                    ELSE IF f.type.kind = "Slice"
                         THEN f.name \o <<"R", "e", "f", "s">>
                         ELSE f.name \o <<"R", "e", "f">>)
             /\ r.GoSelectorFieldName =
                   (IF ReferenceSelectorFieldNameMarker \in DOMAIN f.markers
                    THEN <<"F", "o", "o", "S", "e", "l">>
                    ELSE f.name \o <<"S", "e", "l", "e", "c", "t", "o", "r">>)

\* A list-typed field Bar with the refFieldName override "FooRef" and no
\* selector override.
C8_Witness ==
    /\ Len(rp.refs) = 1
    /\ decl[1].name = S_Bar
    /\ decl[1].type.kind = "Slice"
    /\ ReferenceReferenceFieldNameMarker \in DOMAIN decl[1].markers
    /\ ReferenceSelectorFieldNameMarker \notin DOMAIN decl[1].markers
    /\ rp.refs[1].GoRefFieldName = S_FooRef
    /\ rp.refs[1].GoSelectorFieldName = S_Bar \o S_Selector

\* What has run for Reference k from position p of the log on.
IsVarOf(e, id, type) ==
    e.stmt.kind = "var" /\ e.stmt.id = id /\ e.stmt.type = type
IsToPtrValue(e, id) ==
    /\ e.stmt.kind = "conv"
    /\ e.stmt.fn = "ToPtrValue"
    /\ e.stmt.from = [fn |-> "", path |-> <<S_rsp, "ResolvedValue">>]
    /\ e.stmt.to = id
IsAssignOfField(e, name) ==
    e.stmt.kind = "assign" /\ e.stmt.lhs[Len(e.stmt.lhs)] = name

\* C9: for a pointer-shaped singular Reference a successful lookup is followed
\* by the declaration of storage of the source type, then the ToPtrValue
\* conversion of rsp.ResolvedValue into it, whose failure returns a wrapped
\* error, and only then the assignment of that storage to the field; the raw
\* rsp.ResolvedValue is never assigned to the field.  For a singular Reference
\* that is no pointer the resolved value is assigned directly.
C9_PointerAdaptedAssignment ==
    \A p \in 1..Len(log) :
        LET e == log[p]
        IN e.ref > 0 =>
            LET r == rp.refs[e.ref]
                f == Marked(decl)[e.ref]
                id == <<"v">> \o f.name
                raw == [fn |-> "", path |-> <<S_rsp, "ResolvedValue">>]
            IN ~r.IsSlice =>
                /\ (r.IsPointer /\ IsAssignOfField(e, f.name)) =>
                      /\ e.stmt.rhs # raw
                      /\ e.stmt.rhs = [fn |-> "", path |-> <<id>>]
                /\ (r.IsPointer /\ e.stmt.kind = "call" /\ e.ok) =>
                      /\ Len(log) >= p + 1 =>
                            IsVarOf(log[p + 1], id, TypeString(f.type.elem))
                      /\ Len(log) >= p + 2 => IsToPtrValue(log[p + 2], id)
                      /\ (Len(log) >= p + 2 /\ ~log[p + 2].ok) =>
                            (Len(log) = p + 2 /\ ret.done /\ ret.wrapped)
                      /\ Len(log) >= p + 3 =>
                            (log[p + 2].ok /\ IsAssignOfField(log[p + 3], f.name))
                      /\ (ret.done /\ ~ret.wrapped) => Len(log) >= p + 3
                /\ (~r.IsPointer /\ e.stmt.kind = "call" /\ e.ok) =>
                      /\ Len(log) >= p + 1 =>
                            /\ IsAssignOfField(log[p + 1], f.name)
                            /\ log[p + 1].stmt.rhs = raw
                      /\ (ret.done /\ ~ret.wrapped) => Len(log) >= p + 1

\* A run that resolved a pointer-shaped singular Reference and returned nil.
C9_Witness ==
    /\ ret.done
    /\ ~ret.wrapped
    /\ \E p \in 1..Len(log) :
          /\ log[p].ref > 0
          /\ rp.refs[log[p].ref].IsPointer
          /\ ~rp.refs[log[p].ref].IsSlice
          /\ IsAssignOfField(log[p], rp.refs[log[p].ref].SourceName)

\* C10: no identifier is declared twice in one block scope of the emitted
\* procedure (r, rsp, mrsp, err, the loop indices, the v<SourceName>
\* temporaries of the pointer-shaped References).
C10_NoRedeclaration ==
    Emitted => ScopesOk(file[1].body)

====
